---- MODULE Spec2Model ----
(***************************************************************************)
(* tenchmark (main.go): a dispatcher (main) partitions `requests` calls    *)
(* over `concurrency` workers (Processor.process); each worker opens its   *)
(* own connection, times every call and pushes the latency on the bounded  *)
(* channel processor.ch; one collector (collect) drains the channel,       *)
(* sorts the samples and sends the report, line by line, on the unbuffered *)
(* channel pipe, which main prints.                                        *)
(*                                                                         *)
(* Slices are modelled as functions on 0..len-1 so that an index keeps the *)
(* value the code computes (an index of -1 is out of range).               *)
(* A goroutine that panics runs its deferred calls and then the runtime    *)
(* ends the process: `dying` is set by the panic, `exited` by the end of   *)
(* the process; the other goroutines keep running in between.              *)
(***************************************************************************)
EXTENDS Integers, Sequences, FiniteSets, TLC

VARIABLES
    requests,      \* *requests, the -n flag
    concurrency,   \* *concurrency, the -c flag
    mpc,           \* main: position in main()
    mi,            \* main: the launch loop's i
    quotient,      \* main: *requests / *concurrency
    remainder,     \* main: *requests % *concurrency
    wg,            \* the WaitGroup's counter
    ch,            \* processor.ch: the buffered samples, oldest first
    chCap,         \* processor.ch: its capacity
    chClosed,      \* processor.ch: whether it is closed
    chCloses,      \* the goroutines that closed processor.ch, in order
    wpc,           \* worker gid: position in process()
    count,         \* worker gid: the count it was launched with
    wi,            \* worker gid: the loop's i
    dur,           \* worker gid: the duration it is about to push
    conn,          \* worker gid: its transport
    fails,         \* worker gid: what failed in it: "none", "open", "call", "send"
    cpc,           \* collector: position in collect()
    duration,      \* collector: the range loop's duration
    s,             \* collector: the samples
    l,             \* collector: len(s) taken before the sort
    line,          \* collector: the next report line to send
    vArg,          \* collector: the denominator of the last call of v
    pipeClosed,    \* pipe: whether it is closed
    report,        \* the lines main printed
    dying,         \* a goroutine panicked: the runtime is ending the process
    exited,        \* the process has ended
    sent,          \* history: how often each value was sent on processor.ch
    \* one execution of the Case that call() returns
    args,          \* call: the kinds of the arguments
    kpc,           \* call: position in the Case
    ai,            \* call: the range loop's i
    ops,           \* the operations invoked on proto, each with its outcome
    ret,           \* call: the error the Case returned
    \* one run of sort(values, 0, len(values)-1), made twice in a row
    qinput,        \* sort: the slice as it was handed over
    qvalues,       \* sort: the slice
    qstack,        \* sort: the calls still to make, the next one first
    qpc,           \* sort: position in the current call
    qlo,           \* sort: l of the current call
    qr,            \* sort: r of the current call
    qi,            \* sort: i
    qj,            \* sort: j
    qpivot,        \* sort: pivot
    qpass,         \* which of the two runs is under way
    qfirst         \* the slice as the first run left it

callVars == <<args, kpc, ai, ops, ret>>

sortVars == <<qinput, qvalues, qstack, qpc, qlo, qr, qi, qj, qpivot, qpass,
              qfirst>>

mainVars == <<requests, concurrency, mpc, mi, quotient, remainder, wg, ch,
              chCap, chClosed, chCloses, wpc, count, wi, dur, conn, fails, cpc,
              duration, s, l, line, vArg, pipeClosed, report, dying,
              exited, sent>>

vars == <<mainVars, callVars, sortVars>>

(***************************************************************************)
(* Bounds of the model.                                                    *)
(***************************************************************************)
MaxRequests == 3
MaxConcurrency == 2
MaxDuration == 2
MaxSamples == 1000
MaxArgs == 2
MaxLen == 4
MaxValue == 2

Gids == 0 .. (concurrency - 1)

(***************************************************************************)
(* Slices.                                                                 *)
(***************************************************************************)
EmptySlice == [k \in {} |-> 0]

len(values) == Cardinality(DOMAIN values)

append(values, x) ==
    [k \in 0 .. len(values) |-> IF k < len(values) THEN values[k] ELSE x]

(***************************************************************************)
(* sort: quicksort on values[l..r], the pivot being values[l].             *)
(***************************************************************************)
swap(values, a, b) == [values EXCEPT ![a] = values[b], ![b] = values[a]]

RECURSIVE partition(_, _, _, _, _)
\* the for loop of sort: <<values, i>> after j has run to r
partition(values, pivot, i, j, r) ==
    IF j > r THEN <<values, i>>
    ELSE IF pivot > values[j]
         THEN partition(swap(values, i, j), pivot, i + 1, j + 1, r)
         ELSE partition(values, pivot, i, j + 1, r)

RECURSIVE sort(_, _, _)
sort(values, lo, r) ==
    IF lo >= r THEN values
    ELSE LET pivot  == values[lo]
             p      == partition(values, pivot, lo + 1, lo + 1, r)
             i      == p[2]
             placed == [p[1] EXCEPT ![lo] = p[1][i - 1], ![i - 1] = pivot]
         IN  sort(sort(placed, lo, i - 2), i, r)

(***************************************************************************)
(* The percentile lookup v of collect.                                     *)
(***************************************************************************)
\* (mutant) the division is done before the multiplication
vIndexDivideFirst(length, denominator) ==
    IF denominator <= 0
    THEN length - 1
    ELSE (length \div denominator) * (denominator - 1) - 1

\* (mutant) the quotient is rounded up instead of down
vIndexRoundsUp(length, denominator) ==
    IF denominator <= 0
    THEN length - 1
    ELSE (length * (denominator - 1) + denominator - 1) \div denominator - 1

\* the index v(denominator) reads in s
vIndex(length, denominator) ==
    IF denominator <= 0
    THEN length - 1
    ELSE (length * (denominator - 1)) \div denominator - 1

InRange(values, k) == k \in DOMAIN values

\* the sample v(denominator) returns, in microseconds
v(values, length, denominator) == values[vIndex(length, denominator)]

(***************************************************************************)
(* The report: 18 lines; lines 10..18 are the percentile lines.            *)
(***************************************************************************)
NumLines == 18
FirstPercentileLine == 10

Percentiles  == <<50, 66, 75, 80, 90, 95, 98, 99, 100>>

\* (mutant) the denominators as 100 / (100 - P) truncates them
DenominatorsTruncated == <<2, 2, 4, 5, 10, 20, 50, 100, -1>>

Denominators == <<2, 3, 4, 5, 10, 20, 50, 100, -1>>

IsPercentileLine(k) == k >= FirstPercentileLine

DenominatorOf(k) == Denominators[k - FirstPercentileLine + 1]

\* A line is <<label, number>>; times and rates, which depend on the clock,
\* and the address are left out (number 0).
ReportLine(k) ==
    CASE k = 1 -> <<"Server Address:", 0>>
      [] k = 2 -> <<"", 0>>
      [] k = 3 -> <<"Concurrency level:", concurrency>>
      [] k = 4 -> <<"Time taken for tests:", 0>>
      [] k = 5 -> <<"Complete requests:", l>>
      [] k = 6 -> <<"Failed requests:", requests - l>>
      [] k = 7 -> <<"Request per second:", 0>>
      [] k = 8 -> <<"", 0>>
      [] k = 9 -> <<"Percentage of the requests served within a certain time (ms)", 0>>
      [] OTHER -> <<Percentiles[k - FirstPercentileLine + 1],
                    v(s, l, DenominatorOf(k))>>

(***************************************************************************)
(* The initial state: the flags are parsed, nothing has run.               *)
(***************************************************************************)
\* no Case is being executed
CallIdle ==
    /\ args = <<>>
    /\ kpc = "idle"
    /\ ai = 0
    /\ ops = <<>>
    /\ ret = "nil"

\* sort is not running
SortIdle ==
    /\ qinput = EmptySlice
    /\ qvalues = EmptySlice
    /\ qstack = <<>>
    /\ qpc = "idle"
    /\ qlo = 0
    /\ qr = 0
    /\ qi = 0
    /\ qj = 0
    /\ qpivot = 0
    /\ qpass = 0
    /\ qfirst = EmptySlice

\* main is about to start, with the flags' values in requests, concurrency
MainStart ==
    /\ mpc = "validate"
    /\ mi = 0
    /\ quotient = 0
    /\ remainder = 0
    /\ wg = 0
    /\ ch = <<>>
    /\ chCap = 0
    /\ chClosed = FALSE
    /\ chCloses = <<>>
    /\ wpc = [g \in Gids |-> "unborn"]
    /\ count = [g \in Gids |-> 0]
    /\ wi = [g \in Gids |-> 0]
    /\ dur = [g \in Gids |-> 0]
    /\ conn = [g \in Gids |-> "none"]
    /\ fails = [g \in Gids |-> "none"]
    /\ cpc = "unborn"
    /\ duration = 0
    /\ s = EmptySlice
    /\ l = 0
    /\ line = 1
    /\ pipeClosed = FALSE
    /\ report = <<>>
    /\ dying = FALSE
    /\ exited = FALSE
    /\ vArg = 0
    /\ sent = EmptySlice

Init ==
    /\ requests \in -1 .. MaxRequests
    /\ concurrency \in -1 .. MaxConcurrency
    /\ MainStart
    /\ CallIdle
    /\ SortIdle

(***************************************************************************)
(* main.                                                                   *)
(***************************************************************************)
\* (mutant) zero passes the checks
InvalidNegativeOnly == concurrency < 0 \/ requests < 0

\* the two checks of the flags
Invalid == concurrency <= 0 \/ requests <= 0

MainValidate ==
    /\ ~exited /\ mpc = "validate"
    /\ IF Invalid
       THEN mpc' = "panicked" /\ dying' = TRUE
       ELSE mpc' = "setup" /\ dying' = dying
    /\ UNCHANGED <<vArg, sent, callVars, sortVars>>
    /\ UNCHANGED <<requests, concurrency, mi, quotient, remainder, wg, ch, chCap,
                   chClosed, chCloses, wpc, count, wi, dur, conn, fails, cpc,
                   duration, s, l, line, pipeClosed, report, exited>>

\* the capacity of processor.ch
Capacity == concurrency * 2

\* the processor and its channel are made, pipe is made, collect is started
MainSetup ==
    /\ ~exited /\ mpc = "setup"
    /\ IF Capacity < 0
       THEN /\ mpc' = "panicked" /\ dying' = TRUE
            /\ UNCHANGED <<chCap, cpc>>
       ELSE /\ chCap' = Capacity
            /\ cpc' = "recv"
            /\ mpc' = "partition"
            /\ dying' = dying
    /\ UNCHANGED <<vArg, sent, callVars, sortVars>>
    /\ UNCHANGED <<requests, concurrency, mi, quotient, remainder, wg, ch,
                   chClosed, chCloses, wpc, count, wi, dur, conn, fails,
                   duration, s, l, line, pipeClosed, report, exited>>

\* quotient, remainder := *requests / *concurrency, *requests % *concurrency
\* (both operands are positive here, where Go's truncation is \div and %)
MainPartition ==
    /\ ~exited /\ mpc = "partition"
    /\ IF concurrency = 0
       THEN /\ mpc' = "panicked" /\ dying' = TRUE
            /\ UNCHANGED <<quotient, remainder, mi>>
       ELSE /\ quotient' = requests \div concurrency
            /\ remainder' = requests % concurrency
            /\ mi' = 0
            /\ mpc' = "launch"
            /\ dying' = dying
    /\ UNCHANGED <<vArg, sent, callVars, sortVars>>
    /\ UNCHANGED <<requests, concurrency, wg, ch, chCap, chClosed, chCloses,
                   wpc, count, wi, dur, conn, fails, cpc, duration, s, l, line,
                   pipeClosed, report, exited>>

\* (mutant) the first remainder+1 workers get the extra call
AssignedOffByOne(i) == IF i <= remainder THEN quotient + 1 ELSE quotient

\* the count main hands to worker i
Assigned(i) == IF i < remainder THEN quotient + 1 ELSE quotient

\* go processor.process(i, ...), or the end of the for loop
MainLaunch ==
    /\ ~exited /\ mpc = "launch"
    /\ IF mi < concurrency
       THEN /\ wpc' = [wpc EXCEPT ![mi] = "open"]
            /\ count' = [count EXCEPT ![mi] = Assigned(mi)]
            /\ mpc' = "add"
       ELSE /\ mpc' = "wait"
            /\ UNCHANGED <<wpc, count>>
    /\ UNCHANGED <<vArg, sent, callVars, sortVars>>
    /\ UNCHANGED <<requests, concurrency, mi, quotient, remainder, wg, ch, chCap,
                   chClosed, chCloses, wi, dur, conn, fails, cpc, duration, s,
                   l, line, pipeClosed, report, dying, exited>>

\* wg.Add(1); i++
MainAdd ==
    /\ ~exited /\ mpc = "add"
    /\ wg' = wg + 1
    /\ mi' = mi + 1
    /\ mpc' = "launch"
    /\ UNCHANGED <<vArg, sent, callVars, sortVars>>
    /\ UNCHANGED <<requests, concurrency, quotient, remainder, ch, chCap,
                   chClosed, chCloses, wpc, count, wi, dur, conn, fails, cpc,
                   duration, s, l, line, pipeClosed, report, dying, exited>>

\* (mutant) main does not wait for the workers
ReleasedWithoutWait == TRUE

\* what wg.Wait() waits for
Released == wg = 0

MainWait ==
    /\ ~exited /\ mpc = "wait"
    /\ Released
    /\ mpc' = "close"
    /\ UNCHANGED <<vArg, sent, callVars, sortVars>>
    /\ UNCHANGED <<requests, concurrency, mi, quotient, remainder, wg, ch, chCap,
                   chClosed, chCloses, wpc, count, wi, dur, conn, fails, cpc,
                   duration, s, l, line, pipeClosed, report, dying, exited>>

\* close(processor.ch); closing a closed channel panics
MainClose ==
    /\ ~exited /\ mpc = "close"
    /\ IF chClosed
       THEN /\ mpc' = "panicked" /\ dying' = TRUE
            /\ UNCHANGED <<chClosed, chCloses>>
       ELSE /\ chClosed' = TRUE
            /\ chCloses' = Append(chCloses, "main")
            /\ mpc' = "drain"
            /\ dying' = dying
    /\ UNCHANGED <<vArg, sent, callVars, sortVars>>
    /\ UNCHANGED <<requests, concurrency, mi, quotient, remainder, wg, ch, chCap,
                   wpc, count, wi, dur, conn, fails, cpc, duration, s, l, line,
                   pipeClosed, report, exited>>

\* range pipe ends when pipe is closed; main returns and the process ends
MainReturn ==
    /\ ~exited /\ mpc = "drain"
    /\ pipeClosed
    /\ mpc' = "returned"
    /\ exited' = TRUE
    /\ UNCHANGED <<vArg, sent, callVars, sortVars>>
    /\ UNCHANGED <<requests, concurrency, mi, quotient, remainder, wg, ch, chCap,
                   chClosed, chCloses, wpc, count, wi, dur, conn, fails, cpc,
                   duration, s, l, line, pipeClosed, report, dying>>

(***************************************************************************)
(* Processor.process, worker g.                                            *)
(***************************************************************************)
\* the transport is made and opened; a failed open panics, and the one
\* deferred call, wg.Done, is still to run
WorkerOpen(g) ==
    /\ ~exited /\ wpc[g] = "open"
    /\ \E ok \in BOOLEAN :
         IF ok
         THEN /\ conn' = [conn EXCEPT ![g] = "open"]
              /\ wpc' = [wpc EXCEPT ![g] = "loop"]
              /\ fails' = fails
         ELSE /\ conn' = [conn EXCEPT ![g] = "created"]
              /\ wpc' = [wpc EXCEPT ![g] = "unwind"]
              /\ fails' = [fails EXCEPT ![g] = "open"]
    /\ UNCHANGED <<vArg, sent, callVars, sortVars>>
    /\ UNCHANGED <<requests, concurrency, mpc, mi, quotient, remainder, wg, ch,
                   chCap, chClosed, chCloses, count, wi, dur, cpc, duration, s,
                   l, line, pipeClosed, report, dying, exited>>

\* p.fn(proto) returns nil; the duration is taken
WorkerCall(g) ==
    /\ ~exited /\ wpc[g] = "loop"
    /\ wi[g] < count[g]
    /\ \E d \in 1 .. MaxDuration : dur' = [dur EXCEPT ![g] = d]
    /\ wpc' = [wpc EXCEPT ![g] = "push"]
    /\ UNCHANGED <<vArg, sent, callVars, sortVars>>
    /\ UNCHANGED <<requests, concurrency, mpc, mi, quotient, remainder, wg, ch,
                   chCap, chClosed, chCloses, count, wi, conn, fails, cpc,
                   duration, s, l, line, pipeClosed, report, dying, exited>>

\* (mutant) the return on an error skips trans.Close()
WorkerCallFailedLeaks(g) ==
    /\ ~exited /\ wpc[g] = "loop"
    /\ wi[g] < count[g]
    /\ fails' = [fails EXCEPT ![g] = "call"]
    /\ wpc' = [wpc EXCEPT ![g] = "unwind"]
    /\ UNCHANGED <<vArg, sent, callVars, sortVars>>
    /\ UNCHANGED <<requests, concurrency, mpc, mi, quotient, remainder, wg, ch,
                   chCap, chClosed, chCloses, count, wi, dur, conn, cpc,
                   duration, s, l, line, pipeClosed, report, dying, exited>>

\* (mutant) an error of p.fn(proto) panics, as a failed open does
WorkerCallFailedPanics(g) ==
    /\ ~exited /\ wpc[g] = "loop"
    /\ wi[g] < count[g]
    /\ fails' = [fails EXCEPT ![g] = "call"]
    /\ wpc' = [wpc EXCEPT ![g] = "unwind"]
    /\ dying' = TRUE
    /\ UNCHANGED <<vArg, sent, callVars, sortVars>>
    /\ UNCHANGED <<requests, concurrency, mpc, mi, quotient, remainder, wg, ch,
                   chCap, chClosed, chCloses, count, wi, dur, conn, cpc,
                   duration, s, l, line, pipeClosed, report, exited>>

\* p.fn(proto) returns an error: the worker prints it and returns; the
\* deferred trans.Close() runs, wg.Done() is still to run
WorkerCallFailed(g) ==
    /\ ~exited /\ wpc[g] = "loop"
    /\ wi[g] < count[g]
    /\ fails' = [fails EXCEPT ![g] = "call"]
    /\ conn' = [conn EXCEPT ![g] = "closed"]
    /\ wpc' = [wpc EXCEPT ![g] = "unwind"]
    /\ UNCHANGED <<vArg, sent, callVars, sortVars>>
    /\ UNCHANGED <<requests, concurrency, mpc, mi, quotient, remainder, wg, ch,
                   chCap, chClosed, chCloses, count, wi, dur, cpc, duration, s,
                   l, line, pipeClosed, report, dying, exited>>

\* i reached count: the worker returns; the deferred trans.Close() runs
WorkerReturn(g) ==
    /\ ~exited /\ wpc[g] = "loop"
    /\ ~(wi[g] < count[g])
    /\ conn' = [conn EXCEPT ![g] = "closed"]
    /\ wpc' = [wpc EXCEPT ![g] = "unwind"]
    /\ UNCHANGED <<vArg, sent, callVars, sortVars>>
    /\ UNCHANGED <<requests, concurrency, mpc, mi, quotient, remainder, wg, ch,
                   chCap, chClosed, chCloses, count, wi, dur, fails, cpc,
                   duration, s, l, line, pipeClosed, report, dying, exited>>

\* (mutant) one sample more than the capacity is taken
HasRoomOffByOne == Len(ch) <= chCap

\* the history `sent` with one more x
Tally(b, x) ==
    [y \in DOMAIN b \cup {x} |->
        (IF y \in DOMAIN b THEN b[y] ELSE 0) + (IF y = x THEN 1 ELSE 0)]

\* whether a send on processor.ch can go through
HasRoom == Len(ch) < chCap

\* p.ch <- duration; i++ : blocks while the channel is full, panics when it
\* is closed
WorkerPush(g) ==
    /\ ~exited /\ wpc[g] = "push"
    /\ IF chClosed
       THEN /\ fails' = [fails EXCEPT ![g] = "send"]
            /\ conn' = [conn EXCEPT ![g] = "closed"]
            /\ wpc' = [wpc EXCEPT ![g] = "unwind"]
            /\ UNCHANGED <<ch, wi, sent>>
       ELSE /\ HasRoom
            /\ ch' = Append(ch, dur[g])
            /\ sent' = Tally(sent, dur[g])
            /\ wi' = [wi EXCEPT ![g] = wi[g] + 1]
            /\ wpc' = [wpc EXCEPT ![g] = "loop"]
            /\ UNCHANGED <<fails, conn>>
    /\ UNCHANGED <<vArg, callVars, sortVars>>
    /\ UNCHANGED <<requests, concurrency, mpc, mi, quotient, remainder, wg,
                   chCap, chClosed, chCloses, count, dur, cpc, duration, s, l,
                   line, pipeClosed, report, dying, exited>>

\* the deferred wg.Done(): a negative counter panics; a worker that is
\* unwinding a panic ends the process once its deferred calls have run
WorkerDone(g) ==
    /\ ~exited /\ wpc[g] = "unwind"
    /\ wg' = wg - 1
    /\ wpc' = [wpc EXCEPT ![g] = "stopped"]
    /\ dying' = (dying \/ wg - 1 < 0 \/ fails[g] \in {"open", "send"})
    /\ UNCHANGED <<vArg, sent, callVars, sortVars>>
    /\ UNCHANGED <<requests, concurrency, mpc, mi, quotient, remainder, ch,
                   chCap, chClosed, chCloses, count, wi, dur, conn, fails, cpc,
                   duration, s, l, line, pipeClosed, report, exited>>

(***************************************************************************)
(* collect.                                                                *)
(***************************************************************************)
\* (mutant) the loop ends as soon as the channel is found empty
CollectRecvStopsWhenEmpty ==
    /\ ~exited /\ cpc = "recv"
    /\ IF ch # <<>>
       THEN /\ duration' = Head(ch)
            /\ ch' = Tail(ch)
            /\ cpc' = "append"
       ELSE /\ cpc' = "sort"
            /\ UNCHANGED <<duration, ch>>
    /\ UNCHANGED <<vArg, sent, callVars, sortVars>>
    /\ UNCHANGED <<requests, concurrency, mpc, mi, quotient, remainder, wg,
                   chCap, chClosed, chCloses, wpc, count, wi, dur, conn, fails,
                   s, l, line, pipeClosed, report, dying, exited>>

\* for duration := range processor.ch : the next sample, or the end of the
\* loop once the channel is closed and empty
CollectRecv ==
    /\ ~exited /\ cpc = "recv"
    /\ IF ch # <<>>
       THEN /\ duration' = Head(ch)
            /\ ch' = Tail(ch)
            /\ cpc' = "append"
       ELSE /\ chClosed
            /\ cpc' = "sort"
            /\ UNCHANGED <<duration, ch>>
    /\ UNCHANGED <<vArg, sent, callVars, sortVars>>
    /\ UNCHANGED <<requests, concurrency, mpc, mi, quotient, remainder, wg,
                   chCap, chClosed, chCloses, wpc, count, wi, dur, conn, fails,
                   s, l, line, pipeClosed, report, dying, exited>>

\* s = append(s, duration)
CollectAppend ==
    /\ ~exited /\ cpc = "append"
    /\ s' = append(s, duration)
    /\ cpc' = "recv"
    /\ UNCHANGED <<vArg, sent, callVars, sortVars>>
    /\ UNCHANGED <<requests, concurrency, mpc, mi, quotient, remainder, wg, ch,
                   chCap, chClosed, chCloses, wpc, count, wi, dur, conn, fails,
                   duration, l, line, pipeClosed, report, dying, exited>>

\* l := len(s); sort(s, 0, l-1)
CollectSort ==
    /\ ~exited /\ cpc = "sort"
    /\ l' = len(s)
    /\ s' = sort(s, 0, len(s) - 1)
    /\ line' = 1
    /\ cpc' = "report"
    /\ UNCHANGED <<vArg, sent, callVars, sortVars>>
    /\ UNCHANGED <<requests, concurrency, mpc, mi, quotient, remainder, wg, ch,
                   chCap, chClosed, chCloses, wpc, count, wi, dur, conn, fails,
                   duration, pipeClosed, report, dying, exited>>

\* whether building report line k reads s outside its range
OutOfRange(k) ==
    IsPercentileLine(k) /\ ~InRange(s, vIndex(l, DenominatorOf(k)))

\* pipe <- line k: the line is built, then handed to main, which is in its
\* range loop and prints it (pipe is unbuffered); an index out of range
\* panics while the line is built
CollectEmit ==
    /\ ~exited /\ cpc = "report"
    /\ vArg' = IF IsPercentileLine(line) THEN DenominatorOf(line) ELSE vArg
    /\ IF OutOfRange(line)
       THEN /\ cpc' = "panicked"
            /\ UNCHANGED <<report, line>>
       ELSE /\ mpc = "drain"
            /\ report' = Append(report, ReportLine(line))
            /\ line' = line + 1
            /\ cpc' = IF line = NumLines THEN "finished" ELSE "report"
    /\ UNCHANGED <<sent, callVars, sortVars>>
    /\ UNCHANGED <<requests, concurrency, mpc, mi, quotient, remainder, wg, ch,
                   chCap, chClosed, chCloses, wpc, count, wi, dur, conn, fails,
                   duration, s, l, pipeClosed, dying, exited>>

\* the deferred close(pipe), on return or while unwinding the panic
CollectClosePipe ==
    /\ ~exited /\ cpc \in {"finished", "panicked"}
    /\ pipeClosed' = TRUE
    /\ dying' = (dying \/ cpc = "panicked")
    /\ cpc' = "stopped"
    /\ UNCHANGED <<vArg, sent, callVars, sortVars>>
    /\ UNCHANGED <<requests, concurrency, mpc, mi, quotient, remainder, wg, ch,
                   chCap, chClosed, chCloses, wpc, count, wi, dur, conn, fails,
                   duration, s, l, line, report, exited>>

(***************************************************************************)
(* The runtime ends the process of a goroutine that panicked.              *)
(***************************************************************************)
Exit ==
    /\ ~exited /\ dying
    /\ exited' = TRUE
    /\ UNCHANGED <<vArg, sent, callVars, sortVars>>
    /\ UNCHANGED <<requests, concurrency, mpc, mi, quotient, remainder, wg, ch,
                   chCap, chClosed, chCloses, wpc, count, wi, dur, conn, fails,
                   cpc, duration, s, l, line, pipeClosed, report, dying>>

Next ==
    \/ MainValidate
    \/ MainSetup
    \/ MainPartition
    \/ MainLaunch
    \/ MainAdd
    \/ MainWait
    \/ MainClose
    \/ MainReturn
    \/ \E g \in Gids : WorkerOpen(g)
    \/ \E g \in Gids : WorkerCall(g)
    \/ \E g \in Gids : WorkerCallFailed(g)
    \/ \E g \in Gids : WorkerReturn(g)
    \/ \E g \in Gids : WorkerPush(g)
    \/ \E g \in Gids : WorkerDone(g)
    \/ CollectRecv
    \/ CollectAppend
    \/ CollectSort
    \/ CollectEmit
    \/ CollectClosePipe
    \/ Exit

Spec == Init /\ [][Next]_vars

\* the steps of main, of worker g and of the collector
MainNext ==
    \/ MainValidate \/ MainSetup \/ MainPartition \/ MainLaunch \/ MainAdd
    \/ MainWait \/ MainClose \/ MainReturn

WorkerNext(g) ==
    \/ WorkerOpen(g) \/ WorkerCall(g) \/ WorkerCallFailed(g)
    \/ WorkerReturn(g) \/ WorkerPush(g) \/ WorkerDone(g)

CollectNext ==
    \/ CollectRecv \/ CollectAppend \/ CollectSort \/ CollectEmit
    \/ CollectClosePipe

\* The Go scheduler runs every goroutine that can run, and the runtime
\* ends the process of a goroutine that panicked.
SpecFair ==
    /\ Spec
    /\ WF_vars(MainNext)
    /\ \A g \in 0 .. (MaxConcurrency - 1) : WF_vars(g \in Gids /\ WorkerNext(g))
    /\ WF_vars(CollectNext)
    /\ WF_vars(Exit)

(***************************************************************************)
(* The percentile lookup on its own: the collector has drained and sorted  *)
(* n samples 0, 1, ..., n-1 (so that the sample a lookup returns is the    *)
(* index it read) of a run of one worker, and builds the report.           *)
(***************************************************************************)
Ramp(n) == [k \in 0 .. (n - 1) |-> k]

InitPct ==
    \E n \in 0 .. MaxSamples :
        /\ requests = (IF n = 0 THEN 1 ELSE n)
        /\ concurrency = 1
        /\ mpc = "drain"
        /\ mi = 1
        /\ quotient = requests
        /\ remainder = 0
        /\ wg = 0
        /\ ch = <<>>
        /\ chCap = 2
        /\ chClosed = TRUE
        /\ chCloses = <<"main">>
        /\ wpc = [g \in Gids |-> "stopped"]
        /\ count = [g \in Gids |-> requests]
        /\ wi = [g \in Gids |-> n]
        /\ dur = [g \in Gids |-> IF n = 0 THEN 0 ELSE n - 1]
        /\ conn = [g \in Gids |-> "closed"]
        /\ fails = [g \in Gids |-> IF n = 0 THEN "call" ELSE "none"]
        /\ cpc = "report"
        /\ duration = (IF n = 0 THEN 0 ELSE n - 1)
        /\ s = Ramp(n)
        /\ l = n
        /\ line = 1
        /\ pipeClosed = FALSE
        /\ report = <<>>
        /\ dying = FALSE
        /\ exited = FALSE
        /\ vArg = 0
        /\ sent = [x \in 0 .. (n - 1) |-> 1]
        /\ CallIdle
        /\ SortIdle

NextPct ==
    \/ CollectEmit
    \/ CollectClosePipe
    \/ MainReturn
    \/ Exit

SpecPct == InitPct /\ [][NextPct]_vars

(***************************************************************************)
(* call: one execution of the Case it returns, on a connection whose       *)
(* operations may each fail.  `ops` lists the operations invoked, each     *)
(* with whether it succeeded; a failed operation's error is named after    *)
(* the operation.                                                          *)
(***************************************************************************)
Kinds == {"i16", "i32", "i64", "string", "other"}

\* the write the switch makes for an argument of a supported kind
ValueWrite(kind) ==
    CASE kind = "i16" -> "WriteI16"
      [] kind = "i32" -> "WriteI32"
      [] kind = "i64" -> "WriteI64"
      [] kind = "string" -> "WriteString"

Supported(kind) == kind \in {"i16", "i32", "i64", "string"}

InitCall ==
    /\ args \in UNION {[1 .. n -> Kinds] : n \in 0 .. MaxArgs}
    /\ kpc = "WriteMessageBegin"
    /\ ai = 0
    /\ ops = <<>>
    /\ ret = "nil"
    /\ requests = 1
    /\ concurrency = 1
    /\ MainStart
    /\ SortIdle

\* if err = proto.op(...); err != nil { return }
Invoke(op, next) ==
    /\ kpc = op
    /\ \E ok \in BOOLEAN :
         /\ ops' = Append(ops, <<op, ok>>)
         /\ IF ok THEN kpc' = next /\ ret' = ret
                  ELSE kpc' = "returned" /\ ret' = op
    /\ UNCHANGED <<args, ai, mainVars, sortVars>>

CallWriteMessageBegin == Invoke("WriteMessageBegin", "WriteStructBegin")

CallWriteStructBegin == Invoke("WriteStructBegin", "WriteField")

\* one round of the range loop: the switch on the argument's type, in
\* which err is assigned twice, and the check of err after it
CallWriteField ==
    /\ kpc = "WriteField"
    /\ ai < Len(args)
    /\ LET kind == args[ai + 1] IN
         IF Supported(kind)
         THEN \E begun, written \in BOOLEAN :
                /\ ops' = ops \o << <<"WriteFieldBegin", begun>>,
                                   <<ValueWrite(kind), written>> >>
                /\ IF written
                   THEN kpc' = kpc /\ ai' = ai + 1 /\ ret' = ret
                   ELSE kpc' = "returned" /\ ai' = ai
                        /\ ret' = ValueWrite(kind)
         ELSE /\ ops' = ops
              /\ kpc' = "returned"
              /\ ai' = ai
              /\ ret' = "unsupport type"
    /\ UNCHANGED <<args, mainVars, sortVars>>

\* the loop is over: proto.WriteFieldStop()
CallWriteFieldStop ==
    /\ kpc = "WriteField"
    /\ ai >= Len(args)
    /\ \E ok \in BOOLEAN :
         /\ ops' = Append(ops, <<"WriteFieldStop", ok>>)
         /\ IF ok THEN kpc' = "WriteStructEnd" /\ ret' = ret
                  ELSE kpc' = "returned" /\ ret' = "WriteFieldStop"
    /\ UNCHANGED <<args, ai, mainVars, sortVars>>

CallWriteStructEnd == Invoke("WriteStructEnd", "WriteMessageEnd")

CallWriteMessageEnd == Invoke("WriteMessageEnd", "Flush")

CallFlush == Invoke("Flush", "ReadMessageBegin")

CallReadMessageBegin == Invoke("ReadMessageBegin", "Skip")

CallSkip == Invoke("Skip", "ReadMessageEnd")

CallReadMessageEnd == Invoke("ReadMessageEnd", "returned")

NextCall ==
    \/ CallWriteMessageBegin
    \/ CallWriteStructBegin
    \/ CallWriteField
    \/ CallWriteFieldStop
    \/ CallWriteStructEnd
    \/ CallWriteMessageEnd
    \/ CallFlush
    \/ CallReadMessageBegin
    \/ CallSkip
    \/ CallReadMessageEnd

SpecCall == InitCall /\ [][NextCall]_vars

(***************************************************************************)
(* sort, step by step: a run of sort(values, 0, len(values)-1) on a slice  *)
(* of up to MaxLen values in 0..MaxValue, followed by a second run on the  *)
(* result.  The recursive calls still to make are kept on qstack, the      *)
(* next one first, which is the order the recursion makes them in.  An     *)
(* index out of range panics.                                              *)
(***************************************************************************)
InitSort ==
    /\ \E n \in 0 .. MaxLen : qinput \in [0 .. (n - 1) -> 0 .. MaxValue]
    /\ qvalues = qinput
    /\ qstack = << <<0, len(qinput) - 1>> >>
    /\ qpc = "call"
    /\ qlo = 0
    /\ qr = 0
    /\ qi = 0
    /\ qj = 0
    /\ qpivot = 0
    /\ qpass = 1
    /\ qfirst = EmptySlice
    /\ requests = 1
    /\ concurrency = 1
    /\ MainStart
    /\ CallIdle

\* sort(values, l, r) is entered: it returns when l >= r, else it takes
\* the pivot and starts the loop
SortCall ==
    /\ qpc = "call" /\ qstack # <<>>
    /\ LET lo == Head(qstack)[1]
           r  == Head(qstack)[2]
       IN  /\ qstack' = Tail(qstack)
           /\ IF lo >= r
              THEN UNCHANGED <<qpc, qlo, qr, qi, qj, qpivot>>
              ELSE IF ~InRange(qvalues, lo)
              THEN /\ qpc' = "panicked"
                   /\ UNCHANGED <<qlo, qr, qi, qj, qpivot>>
              ELSE /\ qlo' = lo
                   /\ qr' = r
                   /\ qpivot' = qvalues[lo]
                   /\ qi' = lo + 1
                   /\ qj' = lo + 1
                   /\ qpc' = "loop"
    /\ UNCHANGED <<qinput, qvalues, qpass, qfirst, mainVars, callVars>>

\* (mutant) the loop stops one element early
LoopRunsShort == qj < qr

\* j <= r
LoopRuns == qj <= qr

\* (mutant) the comparison is the wrong way round
PivotSmaller == qpivot < qvalues[qj]

\* pivot > values[j]
PivotGreater == qpivot > qvalues[qj]

\* one round of the for loop
SortLoop ==
    /\ qpc = "loop" /\ LoopRuns
    /\ IF ~InRange(qvalues, qj)
       THEN qpc' = "panicked" /\ UNCHANGED <<qvalues, qi, qj>>
       ELSE IF PivotGreater
       THEN IF ~InRange(qvalues, qi)
            THEN qpc' = "panicked" /\ UNCHANGED <<qvalues, qi, qj>>
            ELSE /\ qvalues' = swap(qvalues, qi, qj)
                 /\ qi' = qi + 1
                 /\ qj' = qj + 1
                 /\ qpc' = qpc
       ELSE /\ qj' = qj + 1
            /\ UNCHANGED <<qvalues, qi, qpc>>
    /\ UNCHANGED <<qinput, qstack, qlo, qr, qpivot, qpass, qfirst, mainVars,
                   callVars>>

\* after the loop: the pivot is put in its place and the two recursive
\* calls, sort(values, l, i-2) and then sort(values, i, r), are to be made
SortPlace ==
    /\ qpc = "loop" /\ ~LoopRuns
    /\ IF ~InRange(qvalues, qlo) \/ ~InRange(qvalues, qi - 1)
       THEN qpc' = "panicked" /\ UNCHANGED <<qvalues, qstack>>
       ELSE /\ qvalues' = [qvalues EXCEPT ![qlo] = qvalues[qi - 1],
                                          ![qi - 1] = qpivot]
            /\ qstack' = << <<qlo, qi - 2>>, <<qi, qr>> >> \o qstack
            /\ qpc' = "call"
    /\ UNCHANGED <<qinput, qlo, qr, qi, qj, qpivot, qpass, qfirst, mainVars,
                   callVars>>

\* the outermost call has returned: the first run is followed by the
\* second, on the slice as it is
SortReturn ==
    /\ qpc = "call" /\ qstack = <<>>
    /\ IF qpass = 1
       THEN /\ qfirst' = qvalues
            /\ qpass' = 2
            /\ qstack' = << <<0, len(qvalues) - 1>> >>
            /\ qpc' = qpc
       ELSE /\ qpc' = "done"
            /\ UNCHANGED <<qfirst, qpass, qstack>>
    /\ UNCHANGED <<qinput, qvalues, qlo, qr, qi, qj, qpivot, mainVars,
                   callVars>>

NextSort ==
    \/ SortCall
    \/ SortLoop
    \/ SortPlace
    \/ SortReturn

\* a run of sort is sequential code: it goes on as long as it can
SpecSort == InitSort /\ [][NextSort]_vars /\ WF_vars(NextSort)

(***************************************************************************)
(* Notions the properties below use.                                       *)
(***************************************************************************)
RECURSIVE SumOver(_, _)
\* the sum of f[g] over the g in S
SumOver(f, S) ==
    IF S = {} THEN 0
    ELSE LET g == CHOOSE x \in S : TRUE IN f[g] + SumOver(f, S \ {g})

\* main has left its launch loop
LaunchDone == mpc \in {"wait", "close", "drain", "returned"}

\* the collector has seen processor.ch closed and empty
ClosureObserved == cpc \in {"sort", "report", "finished", "panicked", "stopped"}

\* the completed count the collector reports
Completed == IF cpc = "sort" THEN len(s) ELSE l

\* the iterations worker g was assigned and never completed
Unexecuted == [g \in Gids |-> count[g] - wi[g]]

\* the samples pushed on processor.ch so far, and those taken off it
Pushed == SumOver(wi, Gids)
Removed == len(s) + (IF cpc = "append" THEN 1 ELSE 0)

(***************************************************************************)
(* C1: for requests > 0 and concurrency > 0, once main has left its launch *)
(* loop it has launched exactly `concurrency` workers, worker i with       *)
(* requests/concurrency + 1 calls when i < requests % concurrency and      *)
(* requests/concurrency otherwise; the counts are non-negative, sum to     *)
(* requests and differ by at most 1.                                       *)
(***************************************************************************)
C1_Partition ==
    LaunchDone =>
        /\ requests > 0 /\ concurrency > 0
        /\ Cardinality({g \in Gids : wpc[g] # "unborn"}) = concurrency
        /\ \A g \in Gids :
             /\ count[g] >= 0
             /\ count[g] = IF g < requests % concurrency
                           THEN requests \div concurrency + 1
                           ELSE requests \div concurrency
        /\ SumOver(count, Gids) = requests
        /\ \A g, h \in Gids : count[g] - count[h] <= 1

C1_Witness ==
    /\ LaunchDone
    /\ requests = 3 /\ concurrency = 2
    /\ count[0] = 2 /\ count[1] = 1

(***************************************************************************)
(* C2: processor.ch is closed at most once, and exactly once when main has *)
(* gone past its close; only main closes it, and only when every worker    *)
(* has returned (its deferred wg.Done has run); no worker ever sends on    *)
(* the closed channel.                                                     *)
(***************************************************************************)
C2_CloseAfterBarrier ==
    /\ Len(chCloses) <= 1
    /\ \A k \in 1 .. Len(chCloses) : chCloses[k] = "main"
    /\ chClosed <=> Len(chCloses) = 1
    /\ mpc \in {"drain", "returned"} => Len(chCloses) = 1
    /\ chClosed => \A g \in Gids : wpc[g] = "stopped"
    /\ \A g \in Gids : fails[g] # "send"

C2_Witness ==
    /\ chClosed
    /\ concurrency = 2
    /\ \A g \in Gids : wi[g] > 0 /\ wpc[g] = "stopped"

(***************************************************************************)
(* C3: when the collector has seen the channel closed, the completed       *)
(* count is requests if no call failed, and otherwise requests minus the   *)
(* iterations that the workers which stopped on a failed call never        *)
(* completed; it is between 0 and requests.                                *)
(***************************************************************************)
C3_CompletedCount ==
    ClosureObserved =>
        /\ (\A g \in Gids : fails[g] # "call") => Completed = requests
        /\ Completed = requests
                       - SumOver(Unexecuted, {g \in Gids : fails[g] = "call"})
        /\ 0 <= Completed /\ Completed <= requests

\* the same with every opened connection: no worker's open failed
C3_CompletedCountOpened ==
    (ClosureObserved /\ \A g \in Gids : fails[g] # "open") =>
        /\ \A g \in Gids : wpc[g] = "stopped"
        /\ (\A g \in Gids : fails[g] # "call") => Completed = requests
        /\ Completed = requests
                       - SumOver(Unexecuted, {g \in Gids : fails[g] = "call"})
        /\ 0 <= Completed /\ Completed <= requests

\* the part of C3 that holds in every run
C3_CompletedBounds ==
    ClosureObserved =>
        /\ Completed = requests - SumOver(Unexecuted, Gids)
        /\ 0 <= Completed /\ Completed <= requests

(***************************************************************************)
(* C4: the step in which a call of worker g fails pushes no sample, leaves *)
(* every other worker as it is and does not end the run; from then on g    *)
(* makes no call and pushes nothing; and a worker stops only when its own  *)
(* count is exhausted or on a failure of its own.                          *)
(***************************************************************************)
C4_StepIsolated ==
    \A g \in Gids :
        (fails[g] # "call" /\ fails'[g] = "call") =>
            /\ ch' = ch /\ wi' = wi /\ chClosed' = chClosed
            /\ dying' = dying /\ exited' = exited
            /\ wpc'[g] = "unwind"
            /\ \A h \in Gids \ {g} :
                 /\ wpc'[h] = wpc[h] /\ fails'[h] = fails[h]
                 /\ conn'[h] = conn[h] /\ dur'[h] = dur[h]
                 /\ count'[h] = count[h]

C4_StaysStopped ==
    \A g \in Gids :
        fails[g] = "call" =>
            /\ fails'[g] = "call" /\ wi'[g] = wi[g]
            /\ wpc'[g] \in {"unwind", "stopped"}
            /\ conn'[g] = "closed"

C4_OwnStop ==
    \A g \in Gids :
        (wpc[g] \in {"unwind", "stopped"} /\ fails[g] = "none") =>
            wi[g] = count[g]

C4_FailureIsolated ==
    /\ [](C4_OwnStop)
    /\ [][C4_StepIsolated /\ C4_StaysStopped]_vars

\* one worker stopped on a failed call, the other made all its calls
C4_Witness ==
    /\ concurrency = 2
    /\ fails[0] = "call" /\ wpc[0] = "stopped" /\ wi[0] < count[0]
    /\ fails[1] = "none" /\ wpc[1] = "stopped" /\ wi[1] = count[1]
    /\ count[1] > 0

(***************************************************************************)
(* C5: with requests = 1 and concurrency = 1 and a successful call, one    *)
(* call is made, one sample is collected, and each of the nine percentile  *)
(* lookups (denominators 2, 3, 4, 5, 10, 20, 50, 100 and the sentinel)     *)
(* resolves to that sample: the collector does not panic in a lookup, and  *)
(* the nine percentile lines it sends carry the sample.                    *)
(***************************************************************************)
C5_SingleSample ==
    (/\ requests = 1 /\ concurrency = 1
     /\ fails[0] = "none" /\ ClosureObserved /\ cpc # "sort") =>
        /\ wi[0] = 1 /\ l = 1 /\ len(s) = 1
        /\ cpc # "panicked"
        /\ \A k \in FirstPercentileLine .. Len(report) : report[k][2] = s[0]
        /\ cpc \in {"finished", "stopped"} => Len(report) = NumLines

(***************************************************************************)
(* C6: when the first call of every worker fails, the completed count is 0 *)
(* and the collector sends the whole report, 'Failed requests: requests'   *)
(* and the final 100% line included, without a panic.                      *)
(***************************************************************************)
FirstCallsFailed ==
    \A g \in Gids :
        IF count[g] > 0 THEN fails[g] = "call" /\ wi[g] = 0
                        ELSE fails[g] = "none"

C6_AllFail ==
    (FirstCallsFailed /\ ClosureObserved /\ cpc # "sort") =>
        /\ l = 0
        /\ cpc # "panicked"
        /\ cpc \in {"finished", "stopped"} =>
             /\ Len(report) = NumLines
             /\ report[6] = <<"Failed requests:", requests>>

(***************************************************************************)
(* C7: on the sorted samples 0, 1, ..., l-1 the lookup of report line k    *)
(* with denominator d > 0 returns the sample at floor(l*(d-1)/d) - 1, the  *)
(* greatest i with (i+1)*d <= l*(d-1), and the sentinel the one at l-1;    *)
(* a lookup panics only when that index is -1 (l <= 1).  For l = 1000 the  *)
(* 50% line reads index 499, the 99% line 989 and the 100% line 999.       *)
(***************************************************************************)
C7_PercentileIndex ==
    /\ \A k \in FirstPercentileLine .. Len(report) :
         LET d == DenominatorOf(k)
             i == report[k][2]
         IN  /\ report[k][1] = Percentiles[k - FirstPercentileLine + 1]
             /\ IF d > 0
                THEN (i + 1) * d <= l * (d - 1) /\ l * (d - 1) < (i + 2) * d
                ELSE i = l - 1
    /\ cpc = "panicked" => l <= 1 /\ line = FirstPercentileLine
    /\ (l <= 1 /\ cpc \in {"finished", "stopped"}) => dying
    /\ l = 1000 =>
         /\ Len(report) >= 10 => report[10] = <<50, 499>>
         /\ Len(report) >= 17 => report[17] = <<99, 989>>
         /\ Len(report) >= 18 => report[18] = <<100, 999>>

C7_Witness ==
    /\ l = 1000
    /\ Len(report) = NumLines
    /\ report[10][2] = 499 /\ report[17][2] = 989 /\ report[18][2] = 999

(***************************************************************************)
(* C8: once made, processor.ch never holds more than 2*concurrency         *)
(* samples: the samples pushed exceed those the collector took off by the  *)
(* length of the channel; a push goes through only when there is room and  *)
(* appends the worker's sample; a worker at its push keeps its sample      *)
(* until then.  (Against the samples already appended to s the excess is   *)
(* at most one more: the sample the collector holds between its receive    *)
(* and its append.)                                                        *)
(***************************************************************************)
C8_Bounded ==
    cpc # "unborn" =>
        /\ Len(ch) <= 2 * concurrency
        /\ Pushed - Removed = Len(ch)
        /\ Pushed - Removed <= 2 * concurrency
        /\ Pushed - len(s) <= 2 * concurrency + 1

C8_PushStep ==
    \A g \in Gids :
        /\ wi'[g] # wi[g] =>
             /\ wi'[g] = wi[g] + 1
             /\ Len(ch) < 2 * concurrency
             /\ ch' = Append(ch, dur[g])
        /\ (wpc[g] = "push" /\ wi'[g] = wi[g]) =>
             (wpc'[g] = "push" /\ dur'[g] = dur[g])
        /\ (wpc[g] = "push" /\ Len(ch) >= 2 * concurrency) =>
             (wpc'[g] = "push" /\ dur'[g] = dur[g] /\ wi'[g] = wi[g])

C8_Backpressure == [](C8_Bounded) /\ [][C8_PushStep]_vars

\* the channel is full and a worker is blocked at its push
C8_Witness ==
    /\ concurrency > 0
    /\ Len(ch) = 2 * concurrency
    /\ \E g \in Gids : wpc[g] = "push"

(***************************************************************************)
(* C9: with concurrency <= 0 or requests <= 0 nothing starts: no worker is *)
(* launched, no connection is made, the channel and the collector are not  *)
(* set up and no report line is printed.                                   *)
(***************************************************************************)
C9_InvalidAborts ==
    (concurrency <= 0 \/ requests <= 0) =>
        /\ mpc \in {"validate", "panicked"}
        /\ \A g \in Gids : wpc[g] = "unborn" /\ conn[g] = "none"
        /\ cpc = "unborn"
        /\ chCap = 0 /\ ch = <<>>
        /\ wg = 0
        /\ report = <<>>

C9_Witness ==
    /\ requests <= 0 /\ concurrency > 0
    /\ mpc = "panicked" /\ exited

(***************************************************************************)
(* C10: once the open of a worker's connection has failed, no report line  *)
(* is sent by the collector.                                               *)
(***************************************************************************)
C10_NoReportAfterOpenFailure ==
    (\E g \in Gids : fails[g] = "open") => report = <<>>

(***************************************************************************)
(* C11: when an argument is of a kind other than i16, i32, i64 or string   *)
(* (and no operation of the connection fails), the execution returns the   *)
(* unsupported-type error and has invoked no write operation on the        *)
(* connection.                                                             *)
(***************************************************************************)
C11_UnsupportedBeforeWrites ==
    (/\ kpc = "returned"
     /\ \E k \in 1 .. Len(args) : ~Supported(args[k])
     /\ \A k \in 1 .. Len(ops) : ops[k][2]) =>
        /\ ret = "unsupport type"
        /\ ops = <<>>

\* what the code does: the error comes after the writes before the argument
C11_UnsupportedAfterWrites ==
    (kpc = "returned" /\ ret = "unsupport type") =>
        /\ ~Supported(args[ai + 1])
        /\ \A k \in 1 .. ai : Supported(args[k])
        /\ Len(ops) = 2 + 2 * ai
        /\ ops[1][1] = "WriteMessageBegin" /\ ops[2][1] = "WriteStructBegin"

(***************************************************************************)
(* C12: an operation on the connection that fails is the last one          *)
(* invoked, and the execution returns its error.                           *)
(***************************************************************************)
C12_FailureAborts ==
    \A k \in 1 .. Len(ops) :
        ~ops[k][2] =>
            /\ k = Len(ops)
            /\ kpc = "returned"
            /\ ret = ops[k][1]

\* what the code does: the same for every operation but WriteFieldBegin
C12_FailureAbortsButFieldBegin ==
    \A k \in 1 .. Len(ops) :
        (~ops[k][2] /\ ops[k][1] # "WriteFieldBegin") =>
            /\ k = Len(ops)
            /\ kpc = "returned"
            /\ ret = ops[k][1]

(***************************************************************************)
(* C13: sorting is idempotent: the second run of sort, on the slice the    *)
(* first run left, never changes it, and a slice that was ascending when   *)
(* handed over is left as it was.                                          *)
(***************************************************************************)
Ascending(values) ==
    \A a, b \in DOMAIN values : a < b => values[a] <= values[b]

C13_SortIdempotent ==
    /\ qpass = 2 => qvalues = qfirst
    /\ (qpass = 2 /\ Ascending(qinput)) => qfirst = qinput
    /\ qpc = "done" => qvalues = qfirst

\* both runs are over, on a slice with a duplicate that was not ascending
C13_Witness ==
    /\ qpc = "done"
    /\ len(qinput) = 4
    /\ ~Ascending(qinput)
    /\ \E a, b \in DOMAIN qinput : a # b /\ qinput[a] = qinput[b]
    /\ qfirst # qinput

(***************************************************************************)
(* C15: for every slice of length n >= 0, sort(s, 0, n-1) ends, never      *)
(* indexes the slice outside 0..n-1, keeps the slice a permutation of what *)
(* it was handed and leaves it ascending.                                  *)
(***************************************************************************)
\* how often each value occurs in the slice
Occurrences(values) ==
    [x \in {values[k] : k \in DOMAIN values} |->
        Cardinality({k \in DOMAIN values : values[k] = x})]

C15_SortSafe ==
    /\ qpc # "panicked"
    /\ DOMAIN qvalues = DOMAIN qinput
    /\ Occurrences(qvalues) = Occurrences(qinput)
    /\ qpass = 2 =>
         /\ Ascending(qfirst)
         /\ Occurrences(qfirst) = Occurrences(qinput)
         /\ qfirst = sort(qinput, 0, len(qinput) - 1)

C15_SortCorrect == [](C15_SortSafe) /\ <>(qpc = "done")

C15_Witness ==
    /\ qpc = "done"
    /\ len(qinput) = 4
    /\ qinput[0] > qinput[1] /\ qinput[1] = qinput[3] /\ qinput[2] > qinput[0]
    /\ Ascending(qvalues)

(***************************************************************************)
(* C14: for each percentile P of 50, 66, 75, 80, 90, 95, 98, 99 the        *)
(* denominator the collector passes to v is 100 / (100 - P), truncated.    *)
(* (As stated: it fails for P = 66, where the collector passes 3.)         *)
(***************************************************************************)
\* the percentile of the line whose lookup was made last, 0 before any
LookedUp ==
    IF cpc = "panicked" THEN Percentiles[line - FirstPercentileLine + 1]
    ELSE IF Len(report) >= FirstPercentileLine THEN report[Len(report)][1]
    ELSE 0

C14_TruncatedDenominator ==
    LookedUp \in {50, 66, 75, 80, 90, 95, 98, 99} =>
        vArg = 100 \div (100 - LookedUp)

(***************************************************************************)
(* C14, amended: the denominators are 2, 3, 4, 5, 10, 20, 50, 100 in that  *)
(* order: 100 / (100 - P) exactly for every P but 66, and for P = 66 the   *)
(* integer nearest to 100 / 34, which is 3 (truncation gives 2).           *)
(***************************************************************************)
C14_Denominator ==
    LET P == LookedUp IN
    P \in {50, 66, 75, 80, 90, 95, 98, 99} =>
        /\ vArg = CASE P = 50 -> 2 [] P = 66 -> 3 [] P = 75 -> 4
                    [] P = 80 -> 5 [] P = 90 -> 10 [] P = 95 -> 20
                    [] P = 98 -> 50 [] P = 99 -> 100
        /\ P # 66 => vArg * (100 - P) = 100
        /\ P = 66 => /\ 2 * (vArg * (100 - P) - 100) <= 100 - P
                     /\ 2 * (100 - vArg * (100 - P)) <= 100 - P
                     /\ vArg # 100 \div (100 - P)

\* the 66% line has been sent, with 3 passed to v
C14_Witness ==
    /\ Len(report) >= FirstPercentileLine
    /\ LookedUp = 66
    /\ vArg = 3

(***************************************************************************)
(* C16: every sample sent is in the channel, in the collector's hand or in *)
(* s, once each; s only grows by append while the collector drains; when   *)
(* it has seen the channel closed, s holds exactly the samples sent, no    *)
(* sample is sent or appended any more, and the sort and every report line *)
(* come after that.                                                        *)
(***************************************************************************)
RECURSIVE appendAll(_, _)
\* values with the elements of the sequence q appended
appendAll(values, q) ==
    IF q = <<>> THEN values ELSE appendAll(append(values, Head(q)), Tail(q))

\* the samples that have been sent and not been lost
Held ==
    appendAll(s, (IF cpc = "append" THEN <<duration>> ELSE <<>>) \o ch)

C16_Collected ==
    /\ Occurrences(Held) = sent
    /\ ClosureObserved =>
         /\ Occurrences(s) = sent
         /\ len(s) = Pushed
         /\ ch = <<>> /\ chClosed
         /\ \A g \in Gids : wpc[g] = "stopped"
    /\ cpc \in {"recv", "append", "unborn"} => l = 0 /\ line = 1
    /\ report # <<>> => ClosureObserved /\ cpc # "sort"

C16_DrainStep ==
    /\ ~ClosureObserved => (s' = s \/ s' = append(s, duration))
    /\ ClosureObserved =>
         /\ ClosureObserved'
         /\ sent' = sent
         /\ Occurrences(s') = Occurrences(s)
         /\ cpc # "sort" => s' = s

C16_SampleSet == [](C16_Collected) /\ [][C16_DrainStep]_vars

\* the collector is about to sort three samples of two workers
C16_Witness ==
    /\ cpc = "sort"
    /\ concurrency = 2
    /\ len(s) = 3
    /\ s[0] > s[1]

(***************************************************************************)
(* C17: a worker's connection is opened at most once, before its first     *)
(* call, and closed at most once, after it was opened; a worker in its     *)
(* loop has its connection open; a worker that has left process() after a  *)
(* successful open (count exhausted, count 0, failed call) has closed it;  *)
(* a step of one worker's connection leaves the other connections alone.   *)
(***************************************************************************)
C17_ConnState ==
    \A g \in Gids :
        /\ wpc[g] \in {"unborn", "open"} => conn[g] = "none" /\ wi[g] = 0
        /\ wpc[g] \in {"loop", "push"} => conn[g] = "open"
        /\ wpc[g] \in {"unwind", "stopped"} =>
             conn[g] = IF fails[g] = "open" THEN "created" ELSE "closed"
        /\ fails[g] = "open" => wi[g] = 0

C17_ConnStep ==
    \A g \in Gids :
        /\ conn'[g] # conn[g] =>
             /\ \/ conn[g] = "none" /\ conn'[g] \in {"open", "created"}
                \/ conn[g] = "open" /\ conn'[g] = "closed"
             /\ \A h \in Gids \ {g} : conn'[h] = conn[h]
        /\ (wpc[g] = "loop" /\ wpc'[g] \in {"push", "unwind"}) =>
             conn[g] = "open"

C17_Connection == [](C17_ConnState) /\ [][C17_ConnStep]_vars

\* one worker left on a failed call, the other with a count of 0
C17_Witness ==
    /\ requests = 1 /\ concurrency = 2
    /\ fails[0] = "call" /\ count[1] = 0
    /\ \A g \in Gids : wpc[g] = "stopped" /\ conn[g] = "closed"

(***************************************************************************)
(* C18: in a run with requests > 0 and concurrency > 0 whose opens all     *)
(* succeed, the process does not end before every worker has stopped,      *)
(* main has closed processor.ch and the collector has drained it and seen  *)
(* it closed.                                                              *)
(***************************************************************************)
RunCompleted ==
    /\ \A g \in Gids : wpc[g] = "stopped"
    /\ chClosed /\ mpc \in {"drain", "returned"}
    /\ ClosureObserved /\ len(s) = Pushed

C18_EndsCompleted ==
    (/\ exited
     /\ requests > 0 /\ concurrency > 0
     /\ \A g \in Gids : fails[g] # "open") => RunCompleted

\* what the code does: under fair scheduling every run ends, and it ends
\* completed unless an open failed or the counter of wg went negative
C18_CompletesUnlessPanic ==
    /\ <>exited
    /\ <>(\/ RunCompleted
          \/ requests <= 0 \/ concurrency <= 0
          \/ wg < 0
          \/ \E g \in Gids : fails[g] = "open")

\* no goroutine is left blocked for ever: only the ended process is stuck,
\* and the collector is at its pipe only when main is past the barrier
C18_NoDeadlock ==
    /\ ~exited => ENABLED Next
    /\ cpc \in {"report", "finished"} => mpc \in {"drain", "returned"}

(***************************************************************************)
(* C19: the counter of wg is never negative: a worker's wg.Done never      *)
(* takes effect before main's wg.Add(1) for that worker.                   *)
(***************************************************************************)
C19_CounterNonNegative ==
    /\ wg >= 0
    /\ \A g \in Gids : wpc[g] = "stopped" => g < mi

(***************************************************************************)
(* C20: for l >= 2 samples and every denominator d of 2, 3, 4, 5, 10, 20,  *)
(* 50, 100 the index l*(d-1)/d - 1 lies in 0 .. l-1 and does not decrease  *)
(* from one denominator to the next, nor to the index l-1 of the 100%      *)
(* line, so that the values reported on lines 50% .. 100% do not decrease  *)
(* and no lookup panics; for l = 0 and l = 1 the index is -1, out of       *)
(* range, for every one of those denominators.                            *)
(***************************************************************************)
C20_IndexRange ==
    /\ \A n \in 1 .. (Len(Denominators) - 1) :
         LET d == Denominators[n]
             i == vIndex(l, d)
         IN  /\ l >= 2 => i \in 0 .. (l - 1) /\ InRange(s, i)
             /\ l <= 1 => i = -1 /\ ~InRange(s, i)
             /\ i <= vIndex(l, Denominators[n + 1])
    /\ \A k \in FirstPercentileLine .. Len(report) :
         /\ l >= 2
         /\ report[k][2] = s[vIndex(l, DenominatorOf(k))]
         /\ k > FirstPercentileLine => report[k - 1][2] <= report[k][2]
    /\ cpc = "panicked" => l <= 1 /\ vIndex(l, vArg) = -1
    /\ l <= 1 => line <= FirstPercentileLine

C20_Witness ==
    /\ l = 2
    /\ Len(report) = NumLines
    /\ report[FirstPercentileLine] = <<50, 0>>
    /\ report[NumLines] = <<100, 1>>

====
